---- MODULE Spec2Model ----
(***************************************************************************)
(* ShoreSquad (src/js/app.js): the weather-advisory module                 *)
(* SingaporeWeatherService and the page state it shares with the other     *)
(* components.                                                             *)
(*                                                                         *)
(* Four specifications share this module:                                  *)
(*   SpecMapper      the pure scorer / icon mapper, applied to condition   *)
(*                   texts, temperatures and humidities drawn in Init;     *)
(*   SpecNormalizer  the selections getCurrentWeather makes inside one     *)
(*                   response (batch, area entry, station reading);        *)
(*   Spec            the scheduler, the pipeline runs with their await     *)
(*                   points, and the display they write;                   *)
(*   SpecNav         the mobile menu of class Navigation under clicks,     *)
(*                   key presses and scrolling.                            *)
(*                                                                         *)
(* Text is modelled as a sequence of one-character strings so that         *)
(* toLowerCase and includes are computed, not assumed.                     *)
(***************************************************************************)
EXTENDS Integers, Sequences, FiniteSets, TLC

VARIABLES
    \* SpecMapper: arguments and results of the pure mappers (score is
    \* meaningful once rating is set)
    forecast, tempHigh, humidity, score, rating, icon, desc,
    \* SpecNormalizer: the selection step last taken, its input and its result
    nstep, nin, nout,
    \* Spec: pipeline runs, the page's weather widgets, the two timers
    runs, display, forecastDisplay, ticks, currentIndex,
    \* SpecNav: the menu's four pieces of state, the number of Navigation
    \* objects bound to the page, the last event dispatched and the menu's
    \* state before it, the scroll position, the header style and the
    \* debounce timer of the scroll listener
    nav, navigations, lastEvent, menuBefore, pageYOffset, header, scrollTimer

mapperVars == <<forecast, tempHigh, humidity, score, rating, icon, desc>>
normVars == <<nstep, nin, nout>>
pipeVars == <<runs, display, forecastDisplay, ticks, currentIndex>>
navVars == <<nav, navigations, lastEvent, menuBefore, pageYOffset, header,
             scrollTimer>>
vars == <<forecast, tempHigh, humidity, score, rating, icon, desc,
          nstep, nin, nout,
          runs, display, forecastDisplay, ticks, currentIndex,
          nav, navigations, lastEvent, menuBefore, pageYOffset, header,
          scrollTimer>>

----------------------------------------------------------------------------
(* Bounds of the model *)

MaxWords == 2       \* words per condition text in SpecMapper
MaxBatches == 2     \* timestamped batches per 2-hour response
MaxTime == 3        \* timestamps range over 1..MaxTime
MaxAreas == 3       \* area entries per batch
MaxReadings == 3    \* station readings per temperature batch
MaxTicks == 1       \* 30-minute ticks after construction
MaxNavigations == 3 \* Navigation objects bound to the page in SpecNav
MaxScroll == 12     \* largest scroll position in SpecNav
MaxDays == 7        \* day entries per 4-day response in SpecNormalizer

None == "none"

Max(a, b) == IF a >= b THEN a ELSE b
Min(a, b) == IF a <= b THEN a ELSE b

----------------------------------------------------------------------------
(* Strings: String.prototype.toLowerCase and String.prototype.includes *)

UpperLetters == <<"A","B","C","D","E","F","G","H","I","J","K","L","M",
                  "N","O","P","Q","R","S","T","U","V","W","X","Y","Z">>
LowerLetters == <<"a","b","c","d","e","f","g","h","i","j","k","l","m",
                  "n","o","p","q","r","s","t","u","v","w","x","y","z">>

toLowerCaseChar(c) ==
    IF \E i \in 1..26 : UpperLetters[i] = c
    THEN LowerLetters[CHOOSE i \in 1..26 : UpperLetters[i] = c]
    ELSE c

toLowerCase(s) == [i \in 1..Len(s) |-> toLowerCaseChar(s[i])]

includes(s, sub) ==
    \E i \in 0..(Len(s) - Len(sub)) : \A j \in 1..Len(sub) : s[i + j] = sub[j]

\* the substrings the rule chains look for
kw_thundery == <<"t","h","u","n","d","e","r","y">>
kw_thunder == <<"t","h","u","n","d","e","r">>
kw_heavy_rain == <<"h","e","a","v","y"," ","r","a","i","n">>
kw_heavy_shower == <<"h","e","a","v","y"," ","s","h","o","w","e","r">>
kw_rain == <<"r","a","i","n">>
kw_shower == <<"s","h","o","w","e","r">>
kw_cloudy == <<"c","l","o","u","d","y">>
kw_partly_cloudy == <<"p","a","r","t","l","y"," ","c","l","o","u","d","y">>
kw_fair == <<"f","a","i","r">>
kw_sunny == <<"s","u","n","n","y">>
kw_hazy == <<"h","a","z","y">>
kw_mist == <<"m","i","s","t">>
kw_pasir_ris == <<"p","a","s","i","r"," ","r","i","s">>
kw_east == <<"e","a","s","t">>

----------------------------------------------------------------------------
(* Icon / copy mapper *)

\* a slip of the chain's order: rain and shower tested before thunder
getWeatherIcon_RainFirst(f) ==
    LET weatherLower == toLowerCase(f) IN
    IF includes(weatherLower, kw_heavy_rain) \/ includes(weatherLower, kw_heavy_shower)
    THEN "fa-cloud-rain"
    ELSE IF includes(weatherLower, kw_rain) \/ includes(weatherLower, kw_shower)
    THEN "fa-cloud-drizzle"
    ELSE IF includes(weatherLower, kw_thundery) \/ includes(weatherLower, kw_thunder)
    THEN "fa-bolt"
    ELSE IF includes(weatherLower, kw_cloudy)
    THEN "fa-cloud"
    ELSE IF includes(weatherLower, kw_partly_cloudy) \/ includes(weatherLower, kw_fair)
    THEN "fa-cloud-sun"
    ELSE IF includes(weatherLower, kw_hazy) \/ includes(weatherLower, kw_mist)
    THEN "fa-smog"
    ELSE "fa-sun"

\* a slip of the chain's order: 'partly cloudy' / 'fair' tested before 'cloudy'
getWeatherIcon_PartlyFirst(f) ==
    LET weatherLower == toLowerCase(f) IN
    IF includes(weatherLower, kw_thundery) \/ includes(weatherLower, kw_thunder)
    THEN "fa-bolt"
    ELSE IF includes(weatherLower, kw_heavy_rain) \/ includes(weatherLower, kw_heavy_shower)
    THEN "fa-cloud-rain"
    ELSE IF includes(weatherLower, kw_rain) \/ includes(weatherLower, kw_shower)
    THEN "fa-cloud-drizzle"
    ELSE IF includes(weatherLower, kw_partly_cloudy) \/ includes(weatherLower, kw_fair)
    THEN "fa-cloud-sun"
    ELSE IF includes(weatherLower, kw_cloudy)
    THEN "fa-cloud"
    ELSE IF includes(weatherLower, kw_hazy) \/ includes(weatherLower, kw_mist)
    THEN "fa-smog"
    ELSE "fa-sun"

getWeatherIcon(f) ==
    LET weatherLower == toLowerCase(f) IN
    IF includes(weatherLower, kw_thundery) \/ includes(weatherLower, kw_thunder)
    THEN "fa-bolt"
    ELSE IF includes(weatherLower, kw_heavy_rain) \/ includes(weatherLower, kw_heavy_shower)
    THEN "fa-cloud-rain"
    ELSE IF includes(weatherLower, kw_rain) \/ includes(weatherLower, kw_shower)
    THEN "fa-cloud-drizzle"
    ELSE IF includes(weatherLower, kw_cloudy)
    THEN "fa-cloud"
    ELSE IF includes(weatherLower, kw_partly_cloudy) \/ includes(weatherLower, kw_fair)
    THEN "fa-cloud-sun"
    ELSE IF includes(weatherLower, kw_hazy) \/ includes(weatherLower, kw_mist)
    THEN "fa-smog"
    ELSE "fa-sun"

\* a slip of the chain's order: 'cloudy' tested before 'partly cloudy'
getCleanupRecommendation_CloudyFirst(f) ==
    LET weatherLower == toLowerCase(f) IN
    IF includes(weatherLower, kw_thundery) \/ includes(weatherLower, kw_heavy_rain)
    THEN "Not ideal for cleanup"
    ELSE IF includes(weatherLower, kw_rain) \/ includes(weatherLower, kw_shower)
    THEN "Consider postponing"
    ELSE IF includes(weatherLower, kw_fair) \/ includes(weatherLower, kw_sunny)
    THEN "Perfect for cleanup!"
    ELSE IF includes(weatherLower, kw_cloudy)
    THEN "Good for cleanup!"
    ELSE IF includes(weatherLower, kw_partly_cloudy)
    THEN "Great conditions!"
    ELSE IF includes(weatherLower, kw_hazy)
    THEN "Okay, but stay hydrated"
    ELSE "Check conditions!"

getCleanupRecommendation(f) ==
    LET weatherLower == toLowerCase(f) IN
    IF includes(weatherLower, kw_thundery) \/ includes(weatherLower, kw_heavy_rain)
    THEN "Not ideal for cleanup"
    ELSE IF includes(weatherLower, kw_rain) \/ includes(weatherLower, kw_shower)
    THEN "Consider postponing"
    ELSE IF includes(weatherLower, kw_fair) \/ includes(weatherLower, kw_sunny)
    THEN "Perfect for cleanup!"
    ELSE IF includes(weatherLower, kw_partly_cloudy)
    THEN "Great conditions!"
    ELSE IF includes(weatherLower, kw_cloudy)
    THEN "Good for cleanup!"
    ELSE IF includes(weatherLower, kw_hazy)
    THEN "Okay, but stay hydrated"
    ELSE "Check conditions!"

----------------------------------------------------------------------------
(* Suitability scorer *)

\* a slip of the chain's order: 'cloudy' tested before 'partly cloudy'
conditionAdjustment_CloudyFirst(weather) ==
    IF includes(weather, kw_fair) \/ includes(weather, kw_sunny) THEN 3
    ELSE IF includes(weather, kw_cloudy) THEN 1
    ELSE IF includes(weather, kw_partly_cloudy) THEN 2
    ELSE IF includes(weather, kw_rain) \/ includes(weather, kw_shower) THEN -3
    ELSE IF includes(weather, kw_thundery) THEN -5
    ELSE 0

\* score += ... of the "Weather conditions" chain
conditionAdjustment(weather) ==
    IF includes(weather, kw_fair) \/ includes(weather, kw_sunny) THEN 3
    ELSE IF includes(weather, kw_partly_cloudy) THEN 2
    ELSE IF includes(weather, kw_cloudy) THEN 1
    ELSE IF includes(weather, kw_rain) \/ includes(weather, kw_shower) THEN -3
    ELSE IF includes(weather, kw_thundery) THEN -5
    ELSE 0

\* score += ... of the "Temperature" chain
temperatureAdjustment(temp) ==
    IF temp >= 24 /\ temp <= 32 THEN 1
    ELSE IF temp > 32 THEN -1
    ELSE 0

\* score += ... of the "Humidity" chain
humidityAdjustment(h) ==
    IF h < 70 THEN 1
    ELSE IF h > 85 THEN -1
    ELSE 0

\* the clamp without its lower end
calculateSuitabilityScore_NoFloor(weather, temp, h) ==
    Min(10, 5 + conditionAdjustment(weather) + temperatureAdjustment(temp)
              + humidityAdjustment(h))

calculateSuitabilityScore(weather, temp, h) ==
    Max(0, Min(10, 5 + conditionAdjustment(weather) + temperatureAdjustment(temp)
                     + humidityAdjustment(h)))

\* the rating thresholds with a strict comparison at the top tier
ratingOfScore_Strict(s) ==
    IF s > 8 THEN "Excellent"
    ELSE IF s >= 6 THEN "Good"
    ELSE IF s >= 4 THEN "Fair"
    ELSE "Poor"

\* the four returns of getCleanupSuitability
ratingOfScore(s) ==
    IF s >= 8 THEN "Excellent"
    ELSE IF s >= 6 THEN "Good"
    ELSE IF s >= 4 THEN "Fair"
    ELSE "Poor"

\* the score getCleanupSuitability computes: the only call of
\* calculateSuitabilityScore, on the lower-cased text
suitabilityScore(f, temp, h) ==
    calculateSuitabilityScore(toLowerCase(f), temp, h)

getCleanupSuitability(f, temp, h) ==
    ratingOfScore(suitabilityScore(f, temp, h))

----------------------------------------------------------------------------
(* Inputs of SpecMapper *)

Words == {
    <<"T","h","u","n","d","e","r","y">>,
    <<"T","H","U","N","D","E","R">>,
    <<"H","e","a","v","y">>,
    <<"R","a","i","n">>,
    <<"s","h","o","w","e","r","s">>,
    <<"P","a","r","t","l","y">>,
    <<"C","l","o","u","d","y">>,
    <<"F","a","i","r">>,
    <<"S","U","N","N","Y">>,
    <<"H","a","z","y">>,
    <<"M","i","s","t">>,
    <<"W","i","n","d","y">>
}

RECURSIVE Texts(_)
Texts(n) ==
    IF n <= 1 THEN Words
    ELSE LET shorter == Texts(n - 1) IN
         shorter \cup { t \o <<" ">> \o w : t \in shorter, w \in Words }

Conditions == Texts(MaxWords)
Temperatures == {23, 24, 32, 33}
Humidities == {69, 70, 85, 86}

MapperIdle ==
    /\ forecast = <<>> /\ tempHigh = 0 /\ humidity = 0
    /\ score = 0 /\ rating = None /\ icon = None /\ desc = None

NormIdle == nstep = None /\ nin = None /\ nout = None

NavIdle ==
    /\ nav = None /\ navigations = 0 /\ lastEvent = None
    /\ menuBefore = FALSE /\ pageYOffset = 0 /\ header = None
    /\ scrollTimer = FALSE

MapperInit ==
    /\ forecast \in Conditions
    /\ tempHigh \in Temperatures
    /\ humidity \in Humidities
    /\ score = 0 /\ rating = None /\ icon = None /\ desc = None

\* a forecast day is mapped: cleanupSuitability (getWeatherForecast's map)
CallGetCleanupSuitability ==
    /\ rating = None
    /\ score' = suitabilityScore(forecast, tempHigh, humidity)
    /\ rating' = getCleanupSuitability(forecast, tempHigh, humidity)
    /\ UNCHANGED <<forecast, tempHigh, humidity, icon, desc>>
    /\ UNCHANGED normVars /\ UNCHANGED pipeVars /\ UNCHANGED navVars

\* a forecast day or the current condition is mapped: icon
CallGetWeatherIcon ==
    /\ icon = None
    /\ icon' = getWeatherIcon(forecast)
    /\ UNCHANGED <<forecast, tempHigh, humidity, score, rating, desc>>
    /\ UNCHANGED normVars /\ UNCHANGED pipeVars /\ UNCHANGED navVars

\* the current condition is mapped: recommendation text (processWeatherData)
CallGetCleanupRecommendation ==
    /\ desc = None
    /\ desc' = getCleanupRecommendation(forecast)
    /\ UNCHANGED <<forecast, tempHigh, humidity, score, rating, icon>>
    /\ UNCHANGED normVars /\ UNCHANGED pipeVars /\ UNCHANGED navVars

MapperNext ==
    \/ CallGetCleanupSuitability
    \/ CallGetWeatherIcon
    \/ CallGetCleanupRecommendation

----------------------------------------------------------------------------
(* Normalizer: the selections of getCurrentWeather *)

\* Array.prototype.find as an index: the first position whose element
\* satisfies the predicate (test[i] is the predicate on seq[i]), 0 when none does
FindIndex(test) ==
    IF \E i \in 1..Len(test) : test[i]
    THEN CHOOSE i \in 1..Len(test) : test[i] /\ \A j \in 1..(i - 1) : ~test[j]
    ELSE 0

\* seq.find(P) || seq[0], as <<element>> or <<>> for undefined
FindOrFirst(seq, test) ==
    LET i == FindIndex(test) IN
    IF i # 0 THEN <<seq[i]>>
    ELSE IF Len(seq) > 0 THEN <<seq[1]>>
    ELSE <<>>

\* data.items.find(item => item.timestamp <= currentTime) || data.items[0]
\* (timestamps of one format compare as the instants they name)
latestForecastOf(items, currentTime) ==
    LET notAfterNow == [i \in 1..Len(items) |-> items[i].timestamp <= currentTime] IN
    FindOrFirst(items, notAfterNow)

\* latestForecast.forecasts.find(area has 'pasir ris' || area has 'east')
\*   || latestForecast.forecasts[0]
pasirRisForecastOf(forecasts) ==
    LET matches == [i \in 1..Len(forecasts) |->
                       \/ includes(toLowerCase(forecasts[i].area), kw_pasir_ris)
                       \/ includes(toLowerCase(forecasts[i].area), kw_east)]
    IN FindOrFirst(forecasts, matches)

\* Math.round on a value held in tenths of a degree
MathRound(tenths) == (tenths + 5) \div 10

\* the unit suffix of the displayed temperature (the degree sign and C)
DegC == "degC"

\* `${Math.round(value)}<unit>`
formatTemperature(tenths) == <<MathRound(tenths), DegC>>

\* let temperature = '28<unit>'
DefaultTemperature == <<28, DegC>>

\* a slip: S07 preferred over S43 whatever the order of the readings
temperatureOf_S07First(readings) ==
    LET i == FindIndex([k \in 1..Len(readings) |-> readings[k].station_id = "S07"])
        j == FindIndex([k \in 1..Len(readings) |-> readings[k].station_id = "S43"])
    IN IF i # 0 THEN formatTemperature(readings[i].value)
       ELSE IF j # 0 THEN formatTemperature(readings[j].value)
       ELSE DefaultTemperature

\* eastTemp = readings.find(S07 || S43); temperature = eastTemp ? rounded : default
temperatureOf(readings) ==
    LET isEast == [k \in 1..Len(readings) |->
                      readings[k].station_id = "S07" \/ readings[k].station_id = "S43"]
        i == FindIndex(isEast)
    IN IF i # 0 THEN formatTemperature(readings[i].value)
       ELSE DefaultTemperature

(* Inputs of SpecNormalizer *)

SeqsUpTo(S, n) == UNION { [1..k -> S] : k \in 0..n }

txt_Fair == <<"F","a","i","r">>
txt_ThunderyShowers == <<"T","h","u","n","d","e","r","y"," ","S","h","o","w","e","r","s">>
txt_PartlyCloudy == <<"P","a","r","t","l","y"," ","C","l","o","u","d","y">>

area_PasirRis == <<"P","a","s","i","r"," ","R","i","s">>
area_PASIRRIS == <<"P","A","S","I","R"," ","R","I","S">>
area_JurongEast == <<"J","u","r","o","n","g"," ","E","a","s","t">>
area_Changi == <<"C","h","a","n","g","i">>
area_Woodlands == <<"W","o","o","d","l","a","n","d","s">>

AreaNames == {area_PasirRis, area_PASIRRIS, area_JurongEast, area_Changi, area_Woodlands}
AreaEntries == [area : AreaNames, forecast : {txt_Fair, txt_ThunderyShowers}]
AreaLists == SeqsUpTo(AreaEntries, MaxAreas)

\* the per-area lists the sample batches carry
BatchForecasts == {
    << [area |-> area_Changi, forecast |-> txt_Fair],
       [area |-> area_PasirRis, forecast |-> txt_ThunderyShowers] >>,
    << [area |-> area_Woodlands, forecast |-> txt_PartlyCloudy] >> }
Batches == [timestamp : 1..MaxTime, forecasts : BatchForecasts]
ItemLists == SeqsUpTo(Batches, MaxBatches)
Times == 0..MaxTime

StationIds == {"S07", "S43", "S100"}
Readings == [station_id : StationIds, value : {265, 275, 304}]
ReadingLists == SeqsUpTo(Readings, MaxReadings)

\* one selection is applied per behaviour, to an input drawn by the action
NormInit == NormIdle

\* getCurrentWeather picks the batch of the 2-hour response
SelectBatch ==
    /\ nstep = None
    /\ \E items \in ItemLists, currentTime \in Times :
          /\ nin' = [items |-> items, currentTime |-> currentTime]
          /\ nout' = latestForecastOf(items, currentTime)
    /\ nstep' = "batch"
    /\ UNCHANGED mapperVars /\ UNCHANGED pipeVars /\ UNCHANGED navVars

\* getCurrentWeather picks the area entry of the batch
SelectArea ==
    /\ nstep = None
    /\ \E forecasts \in AreaLists :
          /\ nin' = forecasts
          /\ nout' = pasirRisForecastOf(forecasts)
    /\ nstep' = "area"
    /\ UNCHANGED mapperVars /\ UNCHANGED pipeVars /\ UNCHANGED navVars

\* getCurrentWeather picks the station reading of the temperature batch
SelectStation ==
    /\ nstep = None
    /\ \E readings \in ReadingLists :
          /\ nin' = readings
          /\ nout' = temperatureOf(readings)
    /\ nstep' = "station"
    /\ UNCHANGED mapperVars /\ UNCHANGED pipeVars /\ UNCHANGED navVars



----------------------------------------------------------------------------
(* Pipeline: updateWeatherDisplay, its two fetching steps and the renderers *)

\* forecast.toLowerCase().replace(/\s+/g, '-')
RECURSIVE replaceSpaces(_)
replaceSpaces(s) ==
    IF s = <<>> THEN <<>>
    ELSE IF Head(s) # " " THEN <<Head(s)>> \o replaceSpaces(Tail(s))
    ELSE IF Len(s) > 1 /\ s[2] = " " THEN replaceSpaces(Tail(s))
    ELSE <<"-">> \o replaceSpaces(Tail(s))

processWeatherData(f, temperature) ==
    [temp |-> temperature,
     icon |-> getWeatherIcon(f),
     desc |-> getCleanupRecommendation(f),
     condition |-> replaceSpaces(toLowerCase(f))]

\* the argument of renderWeather in renderFallbackWeather
FallbackWeather ==
    [temp |-> <<28, DegC>>, icon |-> "fa-sun", desc |-> "Check local weather!"]

\* renderWeather: the three widgets (.weather-temp, .weather-icon,
\* .weather-desc are elements of the page) after the call
renderWeather(data) ==
    [temp |-> data.temp,
     icon |-> <<"fas", data.icon, "weather-icon">>,
     desc |-> data.desc]

\* new Date(day.date).toLocaleDateString('en-SG', {weekday, month, day}),
\* dates counted in days
formatDate(d) == [weekday |-> d % 7, day |-> d]

\* one element of forecast.slice(0, 5).map(day => ({...}))
dailyOutlook(day) ==
    [date |-> formatDate(day.date),
     weather |-> day.forecast,
     tempHigh |-> <<day.temperature.high, DegC>>,
     tempLow |-> <<day.temperature.low, DegC>>,
     humidity |-> <<day.relative_humidity.high, "%">>,
     wind |-> IF day.wind # <<>> THEN <<day.wind[1].speed.high, "km/h">> ELSE <<"Light">>,
     icon |-> getWeatherIcon(day.forecast),
     cleanupSuitability |-> getCleanupSuitability(day.forecast, day.temperature.high,
                                                  day.relative_humidity.high)]

\* a slip of the slice: the first entry skipped
outlookOf_SkipFirst(days) ==
    [i \in 1..Min(Len(days) - 1, 5) |-> dailyOutlook(days[i + 1])]

\* forecast.slice(0, 5).map(...)
outlookOf(days) ==
    [i \in 1..Min(Len(days), 5) |-> dailyOutlook(days[i])]

(* Day lists of SpecNormalizer *)

DayEntries == {
    [date |-> 1, forecast |-> txt_ThunderyShowers,
     temperature |-> [high |-> 33, low |-> 25],
     relative_humidity |-> [high |-> 90, low |-> 70], wind |-> <<>>],
    [date |-> 2, forecast |-> txt_Fair,
     temperature |-> [high |-> 30, low |-> 24],
     relative_humidity |-> [high |-> 65, low |-> 55],
     wind |-> <<[speed |-> [high |-> 20, low |-> 10]]>>],
    [date |-> 3, forecast |-> txt_PartlyCloudy,
     temperature |-> [high |-> 23, low |-> 21],
     relative_humidity |-> [high |-> 80, low |-> 60], wind |-> <<>>] }
DayLists == SeqsUpTo(DayEntries, MaxDays)

\* getWeatherForecast maps the day list of the 4-day response
SelectOutlook ==
    /\ nstep = None
    /\ \E days \in DayLists :
          /\ nin' = days
          /\ nout' = outlookOf(days)
    /\ nstep' = "outlook"
    /\ UNCHANGED mapperVars /\ UNCHANGED pipeVars /\ UNCHANGED navVars

NormNext == SelectBatch \/ SelectArea \/ SelectStation \/ SelectOutlook

\* a slip: an empty list clears the forecast display
renderForecast_ClearOnEmpty(shown, forecastData) == forecastData

\* renderForecast: the content of .weather-forecast after the call (<<>> while
\* the container has not been created); an empty list renders nothing
renderForecast(shown, forecastData) ==
    IF Len(forecastData) > 0 THEN forecastData ELSE shown

\* the weather widgets as the page's markup has them before any render
InitialDisplay == [temp |-> <<"markup">>, icon |-> <<"markup">>, desc |-> "markup"]

\* addWeatherAnimation's two arrays
weatherIcons == <<"fa-sun", "fa-cloud-sun", "fa-cloud", "fa-wind">>
weatherDescs == <<"Perfect for cleanup!", "Great conditions!", "Still good to go!",
                  "Breezy but doable!">>

(* What the three feeds may answer *)

SampleDay(i) ==
    [date |-> i,
     forecast |-> IF i % 3 = 1 THEN txt_ThunderyShowers
                  ELSE IF i % 3 = 2 THEN txt_Fair ELSE txt_PartlyCloudy,
     temperature |-> [high |-> 30 + i, low |-> 24],
     relative_humidity |-> [high |-> 65 + 5 * i, low |-> 60],
     wind |-> IF i % 2 = 0 THEN <<[speed |-> [high |-> 20, low |-> 10]]>> ELSE <<>>]

SampleDays(n) == [i \in 1..n |-> SampleDay(i)]

\* a body is wellFormed when it has the items list at all
Malformed == [wellFormed |-> FALSE, items |-> <<>>]
Body(items) == [wellFormed |-> TRUE, items |-> items]

Bodies2h == {
    Malformed,
    Body(<<>>),
    Body(<< [timestamp |-> 1, forecasts |-> <<>>] >>),
    Body(<< [timestamp |-> 2,
             forecasts |-> << [area |-> area_Changi, forecast |-> txt_Fair],
                              [area |-> area_PasirRis, forecast |-> txt_ThunderyShowers] >>] >>),
    Body(<< [timestamp |-> 1,
             forecasts |-> << [area |-> area_Woodlands, forecast |-> txt_PartlyCloudy] >>],
            [timestamp |-> 2,
             forecasts |-> << [area |-> area_PASIRRIS, forecast |-> txt_ThunderyShowers] >>] >>) }

BodiesTemp == {
    Malformed,
    Body(<<>>),
    Body(<< [readings |-> << [station_id |-> "S43", value |-> 265],
                             [station_id |-> "S07", value |-> 304] >>] >>),
    Body(<< [readings |-> << [station_id |-> "S100", value |-> 275] >>] >>) }

BodiesFc == {
    Malformed,
    Body(<<>>),
    Body(<< [forecasts |-> SampleDays(4)] >>),
    Body(<< [forecasts |-> SampleDays(7)] >>) }

\* how a request ends: fetch rejects, or resolves with a status and a body
Responses(bodies) ==
    {[kind |-> "transport", body |-> Malformed], [kind |-> "status", body |-> Malformed]}
    \cup [kind : {"ok"}, body : bodies]

(* One run of updateWeatherDisplay *)

\* a slip: the 4-day request issued together with the 2-hour request
NewRun_Parallel ==
    [pc |-> "fetch2h",
     got |-> [h2 |-> "pending", temp |-> "unrequested", fc |-> "pending"],
     pasirRisForecast |-> <<>>,
     weatherData |-> <<>>,
     rendered |-> "none",
     forecastRendered |-> FALSE,
     settled |-> "pending"]

\* updateWeatherDisplay() up to its first await: the 2-hour request is issued
NewRun ==
    [pc |-> "fetch2h",
     got |-> [h2 |-> "pending", temp |-> "unrequested", fc |-> "unrequested"],
     pasirRisForecast |-> <<>>,
     weatherData |-> <<>>,
     rendered |-> "none",
     forecastRendered |-> FALSE,
     settled |-> "pending"]

StartRun(rs) == Append(rs, NewRun)

\* a slip: a tick is skipped while an earlier run is still in flight
IntervalCallback_SkipIfBusy(rs) ==
    IF \E r \in 1..Len(rs) : rs[r].pc # "done" THEN rs ELSE StartRun(rs)

\* a slip: a tick abandons the runs still in flight before starting its own
IntervalCallback_CancelPrevious(rs) ==
    StartRun([r \in 1..Len(rs) |->
                 IF rs[r].pc # "done"
                 THEN [rs[r] EXCEPT !.pc = "done", !.settled = "resolved",
                                    !.pasirRisForecast = <<>>, !.weatherData = <<>>]
                 ELSE rs[r]])

\* the callback of setInterval in init
IntervalCallback(rs) == StartRun(rs)

\* a slip: no catch in updateWeatherDisplay, the error reaches the caller
driverCatch_Missing(run, shown) ==
    [run |-> [run EXCEPT !.pc = "done", !.settled = "rejected",
                         !.pasirRisForecast = <<>>, !.weatherData = <<>>],
     display |-> shown]

\* an error thrown in getCurrentWeather is rethrown by its catch and caught
\* by updateWeatherDisplay, which renders the fallback
driverCatch(run, shown) ==
    [run |-> [run EXCEPT !.pc = "done", !.rendered = "fallback", !.settled = "resolved",
                         !.pasirRisForecast = <<>>, !.weatherData = <<>>],
     display |-> renderWeather(FallbackWeather)]

\* a slip: getWeatherForecast rethrows instead of returning []
forecastDataOf_Rethrow(resp) ==
    IF resp.kind # "ok" \/ ~resp.body.wellFormed \/ Len(resp.body.items) = 0
    THEN [kind |-> "throw", data |-> <<>>]
    ELSE [kind |-> "return", data |-> outlookOf(resp.body.items[1].forecasts)]

\* getWeatherForecast: every error is caught and [] returned
forecastDataOf(resp) ==
    IF resp.kind # "ok" \/ ~resp.body.wellFormed \/ Len(resp.body.items) = 0
    THEN [kind |-> "return", data |-> <<>>]
    ELSE [kind |-> "return", data |-> outlookOf(resp.body.items[1].forecasts)]

\* the kind of answer a response amounts to for the run
AnswerKind(resp) ==
    IF resp.kind # "ok" THEN resp.kind
    ELSE IF ~resp.body.wellFormed \/ Len(resp.body.items) = 0 THEN "malformed"
    ELSE "ok"

\* getCurrentWeather from the 2-hour response to the area entry: the error
\* kind, or the selected entry (<<>> when the batch lists no area)
answer2h(resp, currentTime) ==
    IF AnswerKind(resp) # "ok"
    THEN [kind |-> AnswerKind(resp), pasirRisForecast |-> <<>>]
    ELSE LET latestForecast == latestForecastOf(resp.body.items, currentTime) IN
         [kind |-> "ok",
          pasirRisForecast |-> pasirRisForecastOf(latestForecast[1].forecasts)]

\* getCurrentWeather from the temperature response to let temperature
answerTemp(resp) ==
    IF resp.kind = "status"
    THEN [kind |-> "status", temperature |-> DefaultTemperature]
    ELSE IF AnswerKind(resp) # "ok"
    THEN [kind |-> AnswerKind(resp), temperature |-> DefaultTemperature]
    ELSE [kind |-> "ok", temperature |-> temperatureOf(resp.body.items[1].readings)]

\* getWeatherForecast from the 4-day response to its return (or throw)
answerFc(resp) ==
    [kind |-> AnswerKind(resp), forecastData |-> forecastDataOf(resp)]

\* the answers the sample responses amount to
Answers2h == { answer2h(resp, t) : resp \in Responses(Bodies2h), t \in Times }
AnswersTemp == { answerTemp(resp) : resp \in Responses(BodiesTemp) }
AnswersFc == { answerFc(resp) : resp \in Responses(BodiesFc) }

Fail(r, run) ==
    LET c == driverCatch(run, display) IN
    /\ runs' = [runs EXCEPT ![r] = c.run]
    /\ display' = c.display
    /\ UNCHANGED <<forecastDisplay, ticks, currentIndex>>

PipeInit ==
    /\ runs = StartRun(<<>>)
    /\ display = InitialDisplay
    /\ forecastDisplay = <<>>
    /\ ticks = 0
    /\ currentIndex = 0

\* the 30-minute interval fires
Tick ==
    /\ ticks < MaxTicks
    /\ ticks' = ticks + 1
    /\ runs' = IntervalCallback(runs)
    /\ UNCHANGED <<display, forecastDisplay, currentIndex>>
    /\ UNCHANGED mapperVars /\ UNCHANGED normVars /\ UNCHANGED navVars

\* the 10-second interval of addWeatherAnimation fires
AnimationTick ==
    /\ currentIndex' = (currentIndex + 1) % Len(weatherIcons)
    /\ display' = [display EXCEPT
                      !.icon = <<"fas", weatherIcons[currentIndex' + 1], "weather-icon">>,
                      !.desc = weatherDescs[currentIndex' + 1]]
    /\ UNCHANGED <<runs, forecastDisplay, ticks>>
    /\ UNCHANGED mapperVars /\ UNCHANGED normVars /\ UNCHANGED navVars

\* the 2-hour request of run r ends (fetch and response.json()); on success
\* the batch and the area entry are selected and the temperature request issued
Settle2h(r) ==
    /\ runs[r].pc = "fetch2h"
    /\ \E ans \in Answers2h :
          IF ans.kind # "ok"
          THEN Fail(r, [runs[r] EXCEPT !.got.h2 = ans.kind])
          ELSE /\ runs' = [runs EXCEPT
                    ![r].pc = "fetchTemp",
                    ![r].got.h2 = "ok",
                    ![r].got.temp = "pending",
                    ![r].pasirRisForecast = ans.pasirRisForecast]
               /\ UNCHANGED <<display, forecastDisplay, ticks, currentIndex>>
    /\ UNCHANGED mapperVars /\ UNCHANGED normVars /\ UNCHANGED navVars

\* the temperature request of run r ends; unless it throws, getCurrentWeather
\* returns processWeatherData(...) and getWeatherForecast issues its request
SettleTemp(r) ==
    /\ runs[r].pc = "fetchTemp"
    /\ \E ans \in AnswersTemp :
          LET run == [runs[r] EXCEPT !.got.temp = ans.kind] IN
          IF ans.kind \in {"transport", "malformed"}
          THEN Fail(r, run)
          ELSE IF run.pasirRisForecast = <<>>
          THEN Fail(r, [run EXCEPT !.got.h2 = "malformed"])
          ELSE /\ runs' = [runs EXCEPT ![r] =
                    [run EXCEPT
                        !.pc = "fetchFc",
                        !.got.fc = "pending",
                        !.pasirRisForecast = <<>>,
                        !.weatherData =
                            <<processWeatherData(run.pasirRisForecast[1].forecast,
                                                 ans.temperature)>>]]
               /\ UNCHANGED <<display, forecastDisplay, ticks, currentIndex>>
    /\ UNCHANGED mapperVars /\ UNCHANGED normVars /\ UNCHANGED navVars

\* the 4-day request of run r ends; getWeatherForecast returns and the run
\* renders (or, were it to throw, the driver's catch takes over)
SettleFc(r) ==
    /\ runs[r].pc = "fetchFc"
    /\ \E ans \in AnswersFc :
          LET run == [runs[r] EXCEPT !.got.fc = ans.kind] IN
          IF ans.forecastData.kind = "throw"
          THEN Fail(r, run)
          ELSE /\ runs' = [runs EXCEPT ![r] =
                    [run EXCEPT !.pc = "done", !.rendered = "live",
                                !.forecastRendered = TRUE, !.settled = "resolved",
                                !.weatherData = <<>>]]
               /\ display' = renderWeather(run.weatherData[1])
               /\ forecastDisplay' = renderForecast(forecastDisplay, ans.forecastData.data)
               /\ UNCHANGED <<ticks, currentIndex>>
    /\ UNCHANGED mapperVars /\ UNCHANGED normVars /\ UNCHANGED navVars

Next ==
    \/ Tick
    \/ AnimationTick
    \/ \E r \in 1..Len(runs) : Settle2h(r)
    \/ \E r \in 1..Len(runs) : SettleTemp(r)
    \/ \E r \in 1..Len(runs) : SettleFc(r)

Init == MapperIdle /\ NormIdle /\ PipeInit /\ NavIdle

Spec == Init /\ [][Next]_vars

PipeIdle ==
    /\ runs = <<>> /\ display = None /\ forecastDisplay = None
    /\ ticks = 0 /\ currentIndex = 0

InitMapper == MapperInit /\ NormIdle /\ PipeIdle /\ NavIdle

SpecMapper == InitMapper /\ [][MapperNext]_vars

InitNormalizer == MapperIdle /\ NormInit /\ PipeIdle /\ NavIdle

SpecNormalizer == InitNormalizer /\ [][NormNext]_vars

----------------------------------------------------------------------------
(* Navigation: the mobile menu, the header and the keyboard shortcuts     *)
(* (SpecNav)                                                               *)

\* the four pieces of state as closeMobileMenu leaves them
ClosedMenu ==
    [menuActive |-> FALSE, toggleActive |-> FALSE,
     ariaExpanded |-> "false", overflow |-> ""]

\* setAttribute stores the string form of the boolean it is given
String(b) == IF b THEN "true" ELSE "false"

toggleMobileMenu_StaleAria(m) ==
    LET menu == ~m.menuActive IN
    [menuActive |-> menu,
     toggleActive |-> ~m.toggleActive,
     ariaExpanded |-> String(m.menuActive),
     overflow |-> IF menu THEN "hidden" ELSE ""]

toggleMobileMenu(m) ==
    LET menu == ~m.menuActive IN
    [menuActive |-> menu,
     toggleActive |-> ~m.toggleActive,
     ariaExpanded |-> String(menu),
     overflow |-> IF menu THEN "hidden" ELSE ""]

closeMobileMenu(m) ==
    [m EXCEPT !.menuActive = FALSE, !.toggleActive = FALSE,
              !.ariaExpanded = "false", !.overflow = ""]

\* one event reaches the listener of every Navigation object bound to the page
RECURSIVE toggleEach(_, _)
toggleEach(m, n) ==
    IF n = 0 THEN m ELSE toggleEach(toggleMobileMenu(m), n - 1)

RECURSIVE closeEach(_, _)
closeEach(m, n) ==
    IF n = 0 THEN m ELSE closeEach(closeMobileMenu(m), n - 1)

handleScrollEffect(scrollTop) ==
    IF scrollTop > 10
    THEN [boxShadow |-> "0 2px 20px rgba(0,0,0,0.1)",
          backgroundColor |-> "rgba(255,255,255,0.98)"]
    ELSE [boxShadow |-> "none",
          backgroundColor |-> "rgba(255,255,255,0.95)"]

ScrollPositions == 0..MaxScroll

\* the page after ShoreSquadApp has constructed its one Navigation
NavInit ==
    /\ nav = ClosedMenu
    /\ navigations = 1
    /\ lastEvent = None
    /\ menuBefore = FALSE
    /\ pageYOffset = 0
    /\ header = handleScrollEffect(0)
    /\ scrollTimer = FALSE

\* a click on the toggle: every toggle listener runs; the document listeners
\* skip it because the toggle contains the target
ClickToggle ==
    /\ nav' = toggleEach(nav, navigations)
    /\ lastEvent' = "toggle"
    /\ menuBefore' = nav.menuActive
    /\ UNCHANGED <<navigations, pageYOffset, header, scrollTimer>>
    /\ UNCHANGED mapperVars /\ UNCHANGED normVars /\ UNCHANGED pipeVars

\* a click on a link to a section: every link listener scrolls to the section
\* and closes the menu; the scroll starts the debounce timer
ClickNavLink ==
    /\ \E top \in ScrollPositions : pageYOffset' = top
    /\ scrollTimer' = TRUE
    /\ nav' = closeEach(nav, navigations)
    /\ lastEvent' = "link"
    /\ menuBefore' = nav.menuActive
    /\ UNCHANGED <<navigations, header>>
    /\ UNCHANGED mapperVars /\ UNCHANGED normVars /\ UNCHANGED pipeVars

\* a click outside the toggle and the menu
ClickOutside ==
    /\ nav' = closeEach(nav, navigations)
    /\ lastEvent' = "outside"
    /\ menuBefore' = nav.menuActive
    /\ UNCHANGED <<navigations, pageYOffset, header, scrollTimer>>
    /\ UNCHANGED mapperVars /\ UNCHANGED normVars /\ UNCHANGED pipeVars

\* Escape: when the menu is open the handler constructs a Navigation, whose
\* init binds its listeners and styles the header, and closes the menu with it
PressEscape ==
    /\ nav.menuActive => navigations < MaxNavigations
    /\ IF nav.menuActive
       THEN /\ navigations' = navigations + 1
            /\ header' = handleScrollEffect(pageYOffset)
            /\ nav' = closeMobileMenu(nav)
       ELSE UNCHANGED <<nav, navigations, header>>
    /\ lastEvent' = "escape"
    /\ menuBefore' = nav.menuActive
    /\ UNCHANGED <<pageYOffset, scrollTimer>>
    /\ UNCHANGED mapperVars /\ UNCHANGED normVars /\ UNCHANGED pipeVars

\* Alt+1..4: smoothScrollTo one of the four sections
PressAltDigit ==
    /\ \E top \in ScrollPositions : pageYOffset' = top
    /\ scrollTimer' = TRUE
    /\ lastEvent' = "altdigit"
    /\ menuBefore' = nav.menuActive
    /\ UNCHANGED <<nav, navigations, header>>
    /\ UNCHANGED mapperVars /\ UNCHANGED normVars /\ UNCHANGED pipeVars

\* the user scrolls the page: the debounced listener restarts its timer
Scroll ==
    /\ \E top \in ScrollPositions : pageYOffset' = top
    /\ scrollTimer' = TRUE
    /\ lastEvent' = "scroll"
    /\ menuBefore' = nav.menuActive
    /\ UNCHANGED <<nav, navigations, header>>
    /\ UNCHANGED mapperVars /\ UNCHANGED normVars /\ UNCHANGED pipeVars

\* the debounce timer fires, 10 ms after the last scroll event
ScrollTimerFires ==
    /\ scrollTimer
    /\ header' = handleScrollEffect(pageYOffset)
    /\ scrollTimer' = FALSE
    /\ lastEvent' = "timer"
    /\ menuBefore' = nav.menuActive
    /\ UNCHANGED <<nav, navigations, pageYOffset>>
    /\ UNCHANGED mapperVars /\ UNCHANGED normVars /\ UNCHANGED pipeVars

NavNext ==
    \/ ClickToggle
    \/ ClickNavLink
    \/ ClickOutside
    \/ PressEscape
    \/ PressAltDigit
    \/ Scroll
    \/ ScrollTimerFires

InitNav == MapperIdle /\ NormIdle /\ PipeIdle /\ NavInit

SpecNav == InitNav /\ [][NavNext]_vars

----------------------------------------------------------------------------
(* Claims about the scorer and the icon mapper (SpecMapper) *)

\* the condition text holds 'thundery' and none of the keywords tested before it
OnlyThundery(f) ==
    LET w == toLowerCase(f) IN
    /\ includes(w, kw_thundery)
    /\ ~ \E k \in {kw_fair, kw_sunny, kw_partly_cloudy, kw_cloudy, kw_rain, kw_shower} :
           includes(w, k)

\* C1: every computed score is an integer in 0..10, and the worst combination
\* (only 'thundery', tempHigh > 32, humidity > 85) scores 0, not a negative number.
C1_ScoreClamped ==
    rating # None =>
        /\ score \in 0..10
        /\ (OnlyThundery(forecast) /\ tempHigh > 32 /\ humidity > 85) => score = 0

C1_Witness ==
    /\ rating # None /\ score = 0
    /\ OnlyThundery(forecast) /\ tempHigh > 32 /\ humidity > 85

Rank(r) ==
    CASE r = "Poor" -> 0 [] r = "Fair" -> 1 [] r = "Good" -> 2 [] r = "Excellent" -> 3

\* score and rating of every one-word condition text
ProbeTable ==
    { <<suitabilityScore(c, t, h), getCleanupSuitability(c, t, h)>> :
        c \in Words, t \in Temperatures, h \in Humidities }

\* C2: score >= 8 is Excellent, 6..7 Good, 4..5 Fair, <= 3 Poor, and the rating
\* never decreases when the score increases.
C2_RatingThresholds ==
    rating # None =>
        /\ rating \in {"Poor", "Fair", "Good", "Excellent"}
        /\ score >= 8 <=> rating = "Excellent"
        /\ (score >= 6 /\ score <= 7) <=> rating = "Good"
        /\ (score >= 4 /\ score <= 5) <=> rating = "Fair"
        /\ score <= 3 <=> rating = "Poor"
        /\ \A p \in ProbeTable :
              /\ p[1] >= score => Rank(p[2]) >= Rank(rating)
              /\ p[1] <= score => Rank(p[2]) <= Rank(rating)

C2_Witness == rating = "Excellent" /\ score = 8

\* the condition rules of the scorer, in priority order
ScoreRules == <<
    <<{kw_fair, kw_sunny}, 3>>,
    <<{kw_partly_cloudy}, 2>>,
    <<{kw_cloudy}, 1>>,
    <<{kw_rain, kw_shower}, -3>>,
    <<{kw_thundery}, -5>> >>

FirstMatchAdjustment(f) ==
    LET w == toLowerCase(f)
        matching == { i \in 1..Len(ScoreRules) : \E k \in ScoreRules[i][1] : includes(w, k) }
    IN IF matching = {} THEN 0
       ELSE ScoreRules[CHOOSE i \in matching : \A j \in matching : i <= j][2]

\* C3: the score is clamp(5 + c + t + h, 0, 10), c from the first matching
\* case-insensitive rule, t and h from the temperature and humidity bands.
C3_ScoreFormula ==
    rating # None =>
        LET c == FirstMatchAdjustment(forecast)
            t == IF 24 <= tempHigh /\ tempHigh <= 32 THEN 1
                 ELSE IF tempHigh > 32 THEN -1 ELSE 0
            h == IF humidity < 70 THEN 1
                 ELSE IF humidity > 85 THEN -1 ELSE 0
            raw == 5 + c + t + h
        IN score = (IF raw < 0 THEN 0 ELSE IF raw > 10 THEN 10 ELSE raw)

C3_Witness ==
    /\ forecast = <<"P","a","r","t","l","y"," ","C","l","o","u","d","y">>
    /\ tempHigh = 24 /\ humidity = 69
    /\ rating # None /\ score = 9

\* C4: a condition text containing 'thunder' in any letter case gets the
\* lightning icon, whatever rain or shower keyword it also contains.
C4_ThunderFirst ==
    (icon # None /\ includes(toLowerCase(forecast), kw_thunder)) => icon = "fa-bolt"

C4_Witness ==
    /\ forecast = <<"T","h","u","n","d","e","r","y"," ","s","h","o","w","e","r","s">>
    /\ icon = "fa-bolt"

----------------------------------------------------------------------------
(* Claims about the selections of getCurrentWeather (SpecNormalizer) *)

HasPasirRis(e) == includes(toLowerCase(e.area), kw_pasir_ris)
HasEast(e) == includes(toLowerCase(e.area), kw_east)

\* C5: an entry containing 'pasir ris' is selected whenever one exists, whatever
\* its position and the other entries; an 'east' entry only when there is no
\* 'pasir ris' entry; the first entry only when neither substring matches.
C5_PasirRisPreferred ==
    (nstep = "area" /\ Len(nin) > 0) =>
        /\ Len(nout) = 1
        /\ IF \E i \in 1..Len(nin) : HasPasirRis(nin[i])
           THEN HasPasirRis(nout[1])
           ELSE IF \E i \in 1..Len(nin) : HasEast(nin[i])
           THEN HasEast(nout[1])
           ELSE nout[1] = nin[1]

FirstOf(readings, id) ==
    readings[CHOOSE i \in 1..Len(readings) :
                /\ readings[i].station_id = id
                /\ \A j \in 1..(i - 1) : readings[j].station_id # id]

Present(readings, id) == \E i \in 1..Len(readings) : readings[i].station_id = id

Precedes(readings, a, b) ==
    \E i \in 1..Len(readings) :
        /\ readings[i].station_id = a
        /\ \A j \in 1..(i - 1) : readings[j].station_id # b

\* C6 as stated: with S07 and S43 both present the temperature is S07's for
\* every ordering of the readings; S43's when only S43; else the default.
C6_S07AlwaysFirst ==
    nstep = "station" =>
        IF Present(nin, "S07")
        THEN nout = <<MathRound(FirstOf(nin, "S07").value), DegC>>
        ELSE IF Present(nin, "S43")
        THEN nout = <<MathRound(FirstOf(nin, "S43").value), DegC>>
        ELSE nout = <<28, DegC>>

\* C6 (amended): the temperature is the rounded value of whichever of S07 and
\* S43 comes first in the readings list: S07's when an S07 reading precedes
\* every S43 reading, S43's when an S43 reading precedes every S07 reading
\* (so S43's when only S43 is present); the default 28 when neither is present.
C6_FirstListedStation ==
    nstep = "station" =>
        /\ (Present(nin, "S07") /\ Precedes(nin, "S07", "S43")) =>
              nout = <<MathRound(FirstOf(nin, "S07").value), DegC>>
        /\ (Present(nin, "S43") /\ Precedes(nin, "S43", "S07")) =>
              nout = <<MathRound(FirstOf(nin, "S43").value), DegC>>
        /\ (~Present(nin, "S07") /\ ~Present(nin, "S43")) => nout = <<28, DegC>>

C6_Witness ==
    /\ nstep = "station"
    /\ Len(nin) = 3
    /\ nin[1].station_id = "S100"
    /\ nin[2] = [station_id |-> "S43", value |-> 265]
    /\ nin[3] = [station_id |-> "S07", value |-> 304]
    /\ nout = <<27, DegC>>

\* C7: the batch used has the latest timestamp that is not after now; the
\* first batch is used only when no timestamp is <= now.
C7_LatestNotAfterNow ==
    (nstep = "batch" /\ Len(nin.items) > 0) =>
        LET items == nin.items
            past == { i \in 1..Len(items) : items[i].timestamp <= nin.currentTime }
        IN /\ Len(nout) = 1
           /\ IF past # {}
              THEN /\ nout[1].timestamp <= nin.currentTime
                   /\ \A i \in past : items[i].timestamp <= nout[1].timestamp
              ELSE nout[1] = items[1]

----------------------------------------------------------------------------
(* Claims about the pipeline and the scheduler (Spec) *)

FailureKinds == {"transport", "status", "malformed"}

\* run r returns from updateWeatherDisplay in this step
Completes(r) == runs[r].pc # "done" /\ runs'[r].pc = "done"

FallbackTriple ==
    [temp |-> <<28, DegC>>, icon |-> <<"fas", "fa-sun", "weather-icon">>,
     desc |-> "Check local weather!"]

\* C8 as stated: a failure of any one of the three feeds makes the run render
\* the fallback and no live data.
C8_AnyFailureAborts ==
    \A r \in 1..Len(runs) :
        (/\ runs[r].pc = "done"
         /\ \/ runs[r].got.h2 \in FailureKinds
            \/ runs[r].got.temp \in FailureKinds
            \/ runs[r].got.fc \in FailureKinds)
        => runs[r].rendered = "fallback"

\* C8 (amended): a run renders the fallback and no live data exactly when the
\* 2-hour feed fails in any way or the temperature feed fails in transport or
\* lacks the expected structure, and then the 4-day feed is never requested.
\* A non-success status of the temperature feed leaves the run live with the
\* default temperature; any failure of the 4-day feed leaves the run live with
\* the forecast display as it was.
C8_FailurePolicy ==
    [][\A r \in 1..Len(runs) : Completes(r) =>
          LET g == runs'[r].got IN
          IF g.h2 \in FailureKinds \/ g.temp \in {"transport", "malformed"}
          THEN /\ runs'[r].rendered = "fallback"
               /\ display' = FallbackTriple
               /\ forecastDisplay' = forecastDisplay
               /\ g.fc = "unrequested"
          ELSE /\ runs'[r].rendered = "live"
               /\ display'.desc = runs[r].weatherData[1].desc
               /\ g.temp = "status" => display'.temp = <<28, DegC>>
               /\ g.fc \in FailureKinds => forecastDisplay' = forecastDisplay
      ]_vars

C8_Witness ==
    \E r \in 1..Len(runs) :
        /\ runs[r].pc = "done"
        /\ runs[r].got = [h2 |-> "ok", temp |-> "status", fc |-> "transport"]
        /\ runs[r].rendered = "live"
        /\ display.temp = <<28, DegC>>
        /\ display.desc = "Not ideal for cleanup"

\* no feed the run asked answered, and the 2-hour feed it always asks failed
AllFeedsFailed(run) ==
    /\ run.got.h2 \in FailureKinds
    /\ run.got.temp \in FailureKinds \cup {"unrequested"}
    /\ run.got.fc \in FailureKinds \cup {"unrequested"}

\* C9: when every feed fails in a run, updateWeatherDisplay resolves (no
\* rejection reaches the caller), the widgets get exactly the fallback triple
\* and renderForecast is not invoked in that run.
C9_TotalFailureFallback ==
    [][\A r \in 1..Len(runs) : (Completes(r) /\ AllFeedsFailed(runs'[r])) =>
          /\ runs'[r].settled = "resolved"
          /\ runs'[r].rendered = "fallback"
          /\ display' = FallbackTriple
          /\ ~runs'[r].forecastRendered
          /\ forecastDisplay' = forecastDisplay
      ]_vars

C9_Witness ==
    \E r \in 1..Len(runs) :
        /\ runs[r].pc = "done"
        /\ runs[r].got = [h2 |-> "transport", temp |-> "unrequested", fc |-> "unrequested"]
        /\ runs[r].settled = "resolved"
        /\ display = FallbackTriple

\* C10: one run is started at construction and one more by every tick, whatever
\* the state of the earlier runs; a run whose feeds all answer renders its own
\* live data over whatever is shown, the fallback of a failed run included.
C10_Scheduler ==
    /\ [](Len(runs) = 1 + ticks)
    /\ [][/\ ticks' = ticks + 1 =>
               /\ runs' = Append(runs, runs'[Len(runs')])
               /\ runs'[Len(runs')].pc = "fetch2h"
               /\ runs'[Len(runs')].got.h2 = "pending"
          /\ \A r \in 1..Len(runs) :
               (Completes(r) /\ runs'[r].got = [h2 |-> "ok", temp |-> "ok", fc |-> "ok"]) =>
                   /\ runs'[r].rendered = "live"
                   /\ display' = [temp |-> runs[r].weatherData[1].temp,
                                  icon |-> <<"fas", runs[r].weatherData[1].icon,
                                             "weather-icon">>,
                                  desc |-> runs[r].weatherData[1].desc]
      ]_vars

C10_Witness ==
    /\ ticks = 1
    /\ Len(runs) = 2
    /\ runs[1].pc = "done" /\ runs[1].rendered = "fallback"
    /\ runs[2].pc = "done" /\ runs[2].rendered = "live"
    /\ runs[2].got = [h2 |-> "ok", temp |-> "ok", fc |-> "ok"]
    /\ display = [temp |-> <<27, DegC>>, icon |-> <<"fas", "fa-bolt", "weather-icon">>,
                  desc |-> "Not ideal for cleanup"]

----------------------------------------------------------------------------
(* Further claims about the mappers (SpecMapper) *)

\* the rules of the recommendation chain, in priority order
RecommendationRules == <<
    <<{kw_thundery, kw_heavy_rain}, "Not ideal for cleanup">>,
    <<{kw_rain, kw_shower}, "Consider postponing">>,
    <<{kw_fair, kw_sunny}, "Perfect for cleanup!">>,
    <<{kw_partly_cloudy}, "Great conditions!">>,
    <<{kw_cloudy}, "Good for cleanup!">>,
    <<{kw_hazy}, "Okay, but stay hydrated">> >>

FirstMatchRecommendation(f) ==
    LET w == toLowerCase(f)
        matching == { i \in 1..Len(RecommendationRules) :
                        \E k \in RecommendationRules[i][1] : includes(w, k) }
    IN IF matching = {} THEN "Check conditions!"
       ELSE RecommendationRules[CHOOSE i \in matching : \A j \in matching : i <= j][2]

\* C13: the recommendation is the message of the first matching rule in the
\* order thundery/heavy rain, rain/shower, fair/sunny, partly cloudy, cloudy,
\* hazy, else 'Check conditions!'; so 'partly cloudy' is never given the
\* message of plain 'cloudy'.
C13_RecommendationChain ==
    desc # None =>
        /\ desc = FirstMatchRecommendation(forecast)
        /\ (/\ includes(toLowerCase(forecast), kw_partly_cloudy)
            /\ ~ \E k \in {kw_thundery, kw_heavy_rain, kw_rain, kw_shower, kw_fair, kw_sunny} :
                   includes(toLowerCase(forecast), k))
           => desc = "Great conditions!"

C13_Witness ==
    /\ forecast = <<"P","a","r","t","l","y"," ","C","l","o","u","d","y">>
    /\ desc = "Great conditions!"

\* C19: a condition text containing 'thundery' is rated Poor whatever the
\* temperature and the humidity.
C19_ThunderyIsPoor ==
    (rating # None /\ includes(toLowerCase(forecast), kw_thundery)) => rating = "Poor"

\* C20: fa-cloud-sun is returned only for texts containing 'fair'; a text with
\* 'partly cloudy' and no thunder, rain or shower keyword gets fa-cloud, the
\* icon of plain 'cloudy'.
C20_PartlyCloudyShadowed ==
    icon # None =>
        LET w == toLowerCase(forecast) IN
        /\ icon = "fa-cloud-sun" => includes(w, kw_fair)
        /\ (/\ includes(w, kw_partly_cloudy)
            /\ ~ \E k \in {kw_thunder, kw_rain, kw_shower} : includes(w, k))
           => icon = "fa-cloud"

C20_Witness ==
    /\ forecast = <<"P","a","r","t","l","y"," ","C","l","o","u","d","y">>
    /\ icon = "fa-cloud"

----------------------------------------------------------------------------
(* Further claim about the normalizer (SpecNormalizer) *)

\* C12: for a day list of length n the outlook has min(n, 5) records, record i
\* made from entry i (order kept, nothing skipped), with the icon and the
\* suitability of that entry's condition, high temperature and high humidity.
C12_FirstFiveInOrder ==
    nstep = "outlook" =>
        /\ Len(nout) = (IF Len(nin) < 5 THEN Len(nin) ELSE 5)
        /\ \A i \in 1..Len(nout) :
              /\ nout[i].date.day = nin[i].date
              /\ nout[i].weather = nin[i].forecast
              /\ nout[i].tempHigh = <<nin[i].temperature.high, DegC>>
              /\ nout[i].humidity = <<nin[i].relative_humidity.high, "%">>
              /\ nout[i].icon = getWeatherIcon(nin[i].forecast)
              /\ nout[i].cleanupSuitability =
                    getCleanupSuitability(nin[i].forecast, nin[i].temperature.high,
                                          nin[i].relative_humidity.high)

C12_Witness ==
    /\ nstep = "outlook"
    /\ Len(nin) = 7 /\ Len(nout) = 5
    /\ nin[1].date = 3 /\ nin[2].date = 1 /\ nin[6].date = 2
    /\ nout[1].icon = "fa-cloud" /\ nout[1].cleanupSuitability = "Good"
    /\ nout[2].icon = "fa-bolt" /\ nout[2].cleanupSuitability = "Poor"

----------------------------------------------------------------------------
(* Further claims about the pipeline (Spec) *)

\* what the widgets hold right after run r (completing in this step) rendered
OwnConditions(r) ==
    IF runs'[r].rendered = "live"
    THEN [temp |-> runs[r].weatherData[1].temp,
          icon |-> <<"fas", runs[r].weatherData[1].icon, "weather-icon">>,
          desc |-> runs[r].weatherData[1].desc]
    ELSE FallbackTriple

\* the outlooks the sample 4-day responses give
SampleOutlooks ==
    { a.forecastData.data : a \in { b \in AnswersFc : b.kind = "ok" } }

\* C11 as stated: when a run completes, everything shown comes from that run:
\* its current conditions, and no forecast list other than the one it rendered.
C11_WholeReplacement ==
    [][\A r \in 1..Len(runs) : Completes(r) =>
          /\ display' = OwnConditions(r)
          /\ forecastDisplay' # <<>> =>
                (runs'[r].rendered = "live" /\ runs'[r].got.fc = "ok")
      ]_vars

\* C11 (amended): when a run completes, the current-conditions widgets come
\* from that run alone (its live data or the fallback triple); the forecast
\* list is replaced by that run's outlook only when its 4-day feed answered,
\* and otherwise (fallback, or 4-day failure) stays what an earlier run left.
C11_ForecastLeftOver ==
    [][\A r \in 1..Len(runs) : Completes(r) =>
          /\ display' = OwnConditions(r)
          /\ IF runs'[r].rendered = "live" /\ runs'[r].got.fc = "ok"
             THEN forecastDisplay' \in SampleOutlooks
             ELSE forecastDisplay' = forecastDisplay
      ]_vars

C11_Witness ==
    /\ Len(runs) = 2
    /\ runs[1].pc = "done" /\ runs[1].rendered = "live" /\ runs[1].got.fc = "ok"
    /\ runs[2].pc = "done" /\ runs[2].rendered = "fallback"
    /\ display = FallbackTriple
    /\ forecastDisplay # <<>>

\* C14: a tick starts its run without touching the runs still in flight, no
\* step of one run changes another run, and a run that renders writes its own
\* values to the widgets even when a run started after it has already rendered.
C14_LastRenderWins ==
    [][/\ ticks' = ticks + 1 =>
             /\ Len(runs') = Len(runs) + 1
             /\ \A r \in 1..Len(runs) : runs'[r] = runs[r]
       /\ \A r \in 1..Len(runs) : Completes(r) =>
             /\ \A q \in 1..Len(runs) : q # r => runs'[q] = runs[q]
             /\ (\E q \in 1..Len(runs) : q > r /\ runs[q].pc = "done") =>
                   display' = OwnConditions(r)
      ]_vars

C14_Witness ==
    /\ Len(runs) = 2
    /\ runs[1].pc = "done" /\ runs[1].rendered = "fallback"
    /\ runs[2].pc = "done" /\ runs[2].rendered = "live"
    /\ display = FallbackTriple

Feeds == {"h2", "temp", "fc"}

\* C15: in one run at most one request is pending at a time, a feed once
\* answered is not requested again, the temperature request follows the 2-hour
\* answer and the 4-day request follows the end of the current-conditions work.
C15_SequentialRequests ==
    /\ [](\A r \in 1..Len(runs) :
            /\ Cardinality({f \in Feeds : runs[r].got[f] = "pending"}) <= 1
            /\ runs[r].got.temp # "unrequested" => runs[r].got.h2 \notin {"pending", "unrequested"}
            /\ runs[r].got.fc # "unrequested" =>
                  (runs[r].got.h2 = "ok" /\ runs[r].got.temp \in {"ok", "status"}))
    /\ [][\A r \in 1..Len(runs) : \A f \in Feeds :
             /\ runs[r].got[f] # "unrequested" => runs'[r].got[f] # "unrequested"
             /\ runs[r].got[f] \notin {"unrequested", "pending"} =>
                   runs'[r].got[f] # "pending"
      ]_vars

C15_Witness ==
    \E r \in 1..Len(runs) :
        /\ runs[r].pc = "fetchFc"
        /\ runs[r].got = [h2 |-> "ok", temp |-> "ok", fc |-> "pending"]

\* C16: once a pipeline run has rendered, the displayed icon and recommendation
\* text change only in a step in which a pipeline run renders.
C16_SingleWriter ==
    [][(/\ \E r \in 1..Len(runs) : runs[r].pc = "done"
        /\ \A r \in 1..Len(runs) : ~Completes(r)) =>
          /\ display'.icon = display.icon
          /\ display'.desc = display.desc
      ]_vars

----------------------------------------------------------------------------
(* Claims about the mobile menu (SpecNav) *)

\* C17: after any sequence of toggle clicks, link clicks, outside clicks and
\* Escape presses, one click on the nav toggle flips the menu: the menu's
\* state after the click differs from its state before it.
C17_ToggleFlips ==
    lastEvent = "toggle" => nav.menuActive # menuBefore

\* C18: the menu has class 'active' iff the toggle has it, iff aria-expanded
\* is 'true', iff body overflow is 'hidden'; closeMobileMenu is idempotent
\* and leaves all four closed, so the menu is closed after every event whose
\* listeners call it.
C18_MenuConsistent ==
    /\ nav.menuActive <=> nav.toggleActive
    /\ nav.menuActive <=> nav.ariaExpanded = "true"
    /\ nav.menuActive <=> nav.overflow = "hidden"
    /\ nav.ariaExpanded \in {"true", "false"}
    /\ nav.overflow \in {"hidden", ""}
    /\ closeMobileMenu(nav) = ClosedMenu
    /\ closeMobileMenu(closeMobileMenu(nav)) = closeMobileMenu(nav)
    /\ toggleMobileMenu(closeMobileMenu(nav)).menuActive
    /\ lastEvent \in {"link", "outside"} => nav = ClosedMenu
    /\ (lastEvent = "escape" /\ menuBefore) => nav = ClosedMenu

\* a link click has closed a menu that a toggle click had opened
C18_Witness ==
    /\ lastEvent = "link"
    /\ menuBefore
    /\ nav = ClosedMenu

====
